---- MODULE Spec2Model ----
(***************************************************************************)
(* Model of the `ptr` crate's RefCell (src/src/refcell.rs): a payload      *)
(* guarded by a runtime borrow state held in a Cell<Borrow>, the guards    *)
(* Ref and RefMut that release the borrow when dropped, and the checked    *)
(* whole-value operations built on borrow_mut.                              *)
(*                                                                         *)
(* The client is any single-threaded program that holds shared handles to  *)
(* the cells, keeps guards alive for as long as it likes, drops them in    *)
(* any order and catches panics (so that the state after a panic can be    *)
(* observed).  The closure given to replace_with is client code too.       *)
(*                                                                         *)
(* Spec is the client of the borrowing methods, the whole-value methods,   *)
(* the comparisons, clone, new and into_inner; SpecClosure is the client   *)
(* of the borrowing methods and replace_with, whose closures borrow, drop  *)
(* guards, write and call replace_with again; SpecLeak is Spec with a      *)
(* client that also forgets guards.                                        *)
(*                                                                         *)
(* The crate's Cell (src/src/cell.rs), a payload that is only ever moved   *)
(* or copied in and out, has a specification of its own, SpecCell.         *)
(***************************************************************************)
EXTENDS Integers, Sequences, FiniteSets, TLC

(* ---------------------------------------------------------------- bounds *)

\* Number of RefCell objects the client owns.
NumCells == 2

\* Payload values are 0..MaxVal (T is modelled as a small integer type).
MaxVal == 1

\* Number of guards the client can keep alive at once.
MaxGuards == 3

\* The largest value of the machine word that counts shared borrows
\* (usize::MAX, narrowed).
UsizeMax == 7

\* Number of Cell objects the client owns.
NumValueCells == 3

\* Number of Cells of the clients whose closures and destructors call back
\* into the Cells.
NumNestCells == 1

\* Number of calls on Cells that can be running client code at once.
MaxCallDepth == 1

\* Number of RcBox allocations the client makes.
NumBoxes == 1

Cells == 1..NumCells
ValueCells == 1..NumValueCells
NestCells == 1..NumNestCells
Boxes == 1..NumBoxes
Values == 0..MaxVal

\* <T as Default>::default() for the integer payload.
Default == 0

\* "no value" in a result record; as the payload of a cell: the cell has not
\* been constructed, or has been consumed.
NoVal == 0 - 1

(* ----------------------------------------------------------------- state *)

VARIABLES
    value,            \* value[c]: the payload of cell c (RefCell.value)
    state,            \* state[c]: the borrow state of cell c (RefCell.state)
    refs,             \* refs[c]: number of live Ref guards the client holds on c
    refmuts,          \* refmuts[c]: number of live RefMut guards the client holds on c
    stack,            \* replace_with calls whose closure is running, innermost last
    ret,              \* outcome of the operation that was executed last
    overflow_checks,  \* build profile: TRUE panics on integer overflow, FALSE wraps
    leaked,           \* leaked[c]: number of Ref guards on c that were forgotten
    cell_value,       \* cell_value[k]: the payload of Cell k (Cell.value)
    cell_stack,       \* calls on Cells that are running client code, innermost last
    made,             \* made[b]: RcBox b has been allocated (now or in the past)
    strong,           \* strong[b]: RcBox.strong of box b
    weak,             \* weak[b]: RcBox.weak of box b
    rcs,              \* rcs[b]: number of live Rc handles to box b
    weaks,            \* weaks[b]: number of live Weak handles to box b
    dropped,          \* dropped[b]: how many times the payload of b was dropped
    freed,            \* freed[b]: how many times the allocation of b was freed
    aborted           \* the process has been aborted

refcell_vars == <<value, state, refs, refmuts, stack, overflow_checks, leaked>>
cell_vars == <<cell_value, cell_stack>>
rc_vars == <<made, strong, weak, rcs, weaks, dropped, freed, aborted>>

vars == <<refcell_vars, ret, cell_vars, rc_vars>>

(* ------------------------------------------------------------ enum Borrow *)

Shared(n) == [tag |-> "Shared", n |-> n]
UnShared == [tag |-> "UnShared", n |-> 0]
Exclusive == [tag |-> "Exclusive", n |-> 0]

Borrow == {UnShared, Exclusive} \cup {Shared(n) : n \in 0..UsizeMax}

(* ----------------------------------------------------------------- guards *)

\* A guard (struct Ref, struct RefMut) holds nothing but the back-reference
\* to its cell, so the guards the client holds are counted per kind and cell.
RECURSIVE Sum(_, _)
Sum(f, S) ==
    IF S = {} THEN 0
    ELSE LET x == CHOOSE y \in S : TRUE IN f[x] + Sum(f, S \ {x})

\* Number of guards the client holds.
Held == Sum(refs, Cells) + Sum(refmuts, Cells)

(* ----------------------------------------------------------------- errors *)

\* impl Display for BorrowError / BorrowMutError.
Display(e) ==
    CASE e = "BorrowError" -> "already mutably borrowed"
      [] e = "BorrowMutError" -> "already borrowed"
      [] OTHER -> ""

UnreachableMsg == "internal error: entered unreachable code"
AddOverflowMsg == "attempt to add with overflow"
SubOverflowMsg == "attempt to subtract with overflow"

\* What a call hands back: res is "Ok", "Err" or "Panic"; st is the borrow
\* state the call leaves in the cell.
Outcome(res, err, msg, st) == [res |-> res, err |-> err, msg |-> msg, st |-> st]

(* --------------------------------------------------- usize arithmetic *)

\* n + 1 on usize: an overflow panics when the build checks overflow and
\* wraps to 0 otherwise.
UsizeInc(n) ==
    IF n < UsizeMax THEN [panic |-> FALSE, v |-> n + 1]
    ELSE IF overflow_checks THEN [panic |-> TRUE, v |-> n]
    ELSE [panic |-> FALSE, v |-> 0]

\* n - 1 on usize: an underflow panics when the build checks overflow and
\* wraps to usize::MAX otherwise.
UsizeDec(n) ==
    IF n > 0 THEN [panic |-> FALSE, v |-> n - 1]
    ELSE IF overflow_checks THEN [panic |-> TRUE, v |-> n]
    ELSE [panic |-> FALSE, v |-> UsizeMax]

(* ------------------------------------------ borrow operations on a state *)

\* Faulty try_borrow: the Shared(n) arm hands out the guard without counting it.
TryBorrowNoCount(b) ==
    CASE b.tag = "UnShared" -> Outcome("Ok", "none", "", Shared(1))
      [] b.tag = "Shared" -> Outcome("Ok", "none", "", b)
      [] b.tag = "Exclusive" -> Outcome("Err", "BorrowError", "", b)

\* Faulty try_borrow: a refused borrow is counted all the same.
TryBorrowCountsRefused(b) ==
    CASE b.tag = "UnShared" -> Outcome("Ok", "none", "", Shared(1))
      [] b.tag = "Shared" ->
            LET i == UsizeInc(b.n)
            IN  IF i.panic THEN Outcome("Panic", "none", AddOverflowMsg, b)
                ELSE Outcome("Ok", "none", "", Shared(i.v))
      [] b.tag = "Exclusive" -> Outcome("Err", "BorrowError", "", Shared(1))

\* RefCell::try_borrow, on the borrow state b of the cell.
TryBorrow(b) ==
    CASE b.tag = "UnShared" -> Outcome("Ok", "none", "", Shared(1))
      [] b.tag = "Shared" ->
            LET i == UsizeInc(b.n)
            IN  IF i.panic THEN Outcome("Panic", "none", AddOverflowMsg, b)
                ELSE Outcome("Ok", "none", "", Shared(i.v))
      [] b.tag = "Exclusive" -> Outcome("Err", "BorrowError", "", b)

\* Faulty borrow: panics with the message of the other error kind.
BorrowSharedWrongMsg(b) ==
    LET r == TryBorrow(b)
    IN  IF r.res = "Err"
        THEN Outcome("Panic", "none", Display("BorrowMutError"), r.st)
        ELSE r

\* RefCell::borrow: try_borrow().unwrap_or_else(|_| panic!("{}", BorrowError)).
BorrowShared(b) ==
    LET r == TryBorrow(b)
    IN  IF r.res = "Err"
        THEN Outcome("Panic", "none", Display("BorrowError"), r.st)
        ELSE r

\* Faulty try_borrow_mut: refuses only an exclusive borrow, so a shared
\* borrow is upgraded.
TryBorrowMutUpgrade(b) ==
    CASE b.tag = "Exclusive" -> Outcome("Err", "BorrowError", "", b)
      [] b.tag \in {"UnShared", "Shared"} -> Outcome("Ok", "none", "", Exclusive)

\* Faulty try_borrow_mut: upgrades the only shared borrow.
TryBorrowMutUpgradeOne(b) ==
    CASE b.tag = "Exclusive" \/ (b.tag = "Shared" /\ b.n # 1) ->
            Outcome("Err", "BorrowError", "", b)
      [] b.tag = "UnShared" \/ (b.tag = "Shared" /\ b.n = 1) ->
            Outcome("Ok", "none", "", Exclusive)

\* RefCell::try_borrow_mut, on the borrow state b of the cell.
TryBorrowMut(b) ==
    CASE b.tag \in {"Exclusive", "Shared"} -> Outcome("Err", "BorrowError", "", b)
      [] b.tag = "UnShared" -> Outcome("Ok", "none", "", Exclusive)

\* Faulty borrow_mut: panics with the message of the other error kind.
BorrowMutWrongMsg(b) ==
    LET r == TryBorrowMut(b)
    IN  IF r.res = "Err"
        THEN Outcome("Panic", "none", Display("BorrowError"), r.st)
        ELSE r

\* RefCell::borrow_mut:
\* try_borrow_mut().unwrap_or_else(|_| panic!("{}", BorrowMutError)).
BorrowMut(b) ==
    LET r == TryBorrowMut(b)
    IN  IF r.res = "Err"
        THEN Outcome("Panic", "none", Display("BorrowMutError"), r.st)
        ELSE r

\* Faulty Drop for Ref: no arm for the last guard, Shared(1) becomes Shared(0).
DropRefNoIdle(b) ==
    CASE b.tag \in {"Exclusive", "UnShared"} ->
            Outcome("Panic", "none", UnreachableMsg, b)
      [] b.tag = "Shared" ->
            LET d == UsizeDec(b.n)
            IN  IF d.panic THEN Outcome("Panic", "none", SubOverflowMsg, b)
                ELSE Outcome("Ok", "none", "", Shared(d.v))

\* impl Drop for Ref, on the borrow state b of the guard's cell.
DropRef(b) ==
    CASE b.tag \in {"Exclusive", "UnShared"} ->
            Outcome("Panic", "none", UnreachableMsg, b)
      [] b.tag = "Shared" /\ b.n = 1 -> Outcome("Ok", "none", "", UnShared)
      [] b.tag = "Shared" /\ b.n # 1 ->
            LET d == UsizeDec(b.n)
            IN  IF d.panic THEN Outcome("Panic", "none", SubOverflowMsg, b)
                ELSE Outcome("Ok", "none", "", Shared(d.v))

\* Faulty Drop for RefMut: the state is not reset.
DropRefMutNoReset(b) ==
    CASE b.tag \in {"UnShared", "Shared"} ->
            Outcome("Panic", "none", UnreachableMsg, b)
      [] b.tag = "Exclusive" -> Outcome("Ok", "none", "", b)

\* impl Drop for RefMut, on the borrow state b of the guard's cell.
DropRefMut(b) ==
    CASE b.tag \in {"UnShared", "Shared"} ->
            Outcome("Panic", "none", UnreachableMsg, b)
      [] b.tag = "Exclusive" -> Outcome("Ok", "none", "", UnShared)

(* ------------------------------------------------------ the last outcome *)

\* op: the operation; cell: its receiver; res: "Ok", "Err", "Panic" or
\* "Running" (replace_with has called its closure); err: the error kind of
\* an Err; msg: the message of a panic; val: the value returned; arg: for
\* a replace_with that returned, the value its closure returned; for replace,
\* the value passed in; for swap, the other cell.
Ret(op, c, res, err, msg, val, arg) ==
    [op |-> op, cell |-> c, res |-> res, err |-> err, msg |-> msg,
     val |-> val, arg |-> arg]

\* The client owns no RefCell.
NoRefCells ==
    /\ value = [c \in Cells |-> NoVal]
    /\ state = [c \in Cells |-> UnShared]
    /\ refs = [c \in Cells |-> 0]
    /\ refmuts = [c \in Cells |-> 0]
    /\ stack = <<>>
    /\ leaked = [c \in Cells |-> 0]

\* The client owns no Cell.
NoCells ==
    /\ cell_value = [k \in ValueCells |-> NoVal]
    /\ cell_stack = <<>>

\* The client has made no Rc.
NoRcs ==
    /\ made = [b \in Boxes |-> FALSE]
    /\ strong = [b \in Boxes |-> 0]
    /\ weak = [b \in Boxes |-> 0]
    /\ rcs = [b \in Boxes |-> 0]
    /\ weaks = [b \in Boxes |-> 0]
    /\ dropped = [b \in Boxes |-> 0]
    /\ freed = [b \in Boxes |-> 0]
    /\ aborted = FALSE

Init ==
    /\ value \in [Cells -> Values]
    /\ state = [c \in Cells |-> UnShared]
    /\ refs = [c \in Cells |-> 0]
    /\ refmuts = [c \in Cells |-> 0]
    /\ stack = <<>>
    /\ leaked = [c \in Cells |-> 0]
    /\ ret = Ret("new", 0, "Ok", "none", "", NoVal, NoVal)
    /\ overflow_checks \in BOOLEAN
    /\ NoCells
    /\ NoRcs

(* ---------------------------------------------------------- borrow calls *)

\* A borrowing call on cell c whose outcome on the borrow state is r; on Ok
\* the client keeps the returned guard of the given kind.
GuardCall(op, c, r, kind) ==
    /\ r.res = "Ok" => Held < MaxGuards
    /\ state' = [state EXCEPT ![c] = r.st]
    /\ refs' = IF r.res = "Ok" /\ kind = "Ref"
               THEN [refs EXCEPT ![c] = @ + 1] ELSE refs
    /\ refmuts' = IF r.res = "Ok" /\ kind = "RefMut"
                  THEN [refmuts EXCEPT ![c] = @ + 1] ELSE refmuts
    /\ ret' = Ret(op, c, r.res, r.err, r.msg, NoVal, NoVal)
    /\ UNCHANGED <<value, stack, overflow_checks, leaked, cell_vars, rc_vars>>

CallTryBorrow(c) == GuardCall("try_borrow", c, TryBorrow(state[c]), "Ref")

CallBorrow(c) == GuardCall("borrow", c, BorrowShared(state[c]), "Ref")

CallTryBorrowMut(c) ==
    GuardCall("try_borrow_mut", c, TryBorrowMut(state[c]), "RefMut")

CallBorrowMut(c) == GuardCall("borrow_mut", c, BorrowMut(state[c]), "RefMut")

\* The client drops one of the Ref guards it holds on c (in any order).
DropRefGuard(c) ==
    /\ refs[c] > 0
    /\ LET r == DropRef(state[c])
       IN  /\ state' = [state EXCEPT ![c] = r.st]
           /\ ret' = Ret("drop_ref", c, r.res, r.err, r.msg, NoVal, NoVal)
    /\ refs' = [refs EXCEPT ![c] = @ - 1]
    /\ UNCHANGED <<value, refmuts, stack, overflow_checks, leaked, cell_vars, rc_vars>>

\* The client drops one of the RefMut guards it holds on c.
DropRefMutGuard(c) ==
    /\ refmuts[c] > 0
    /\ LET r == DropRefMut(state[c])
       IN  /\ state' = [state EXCEPT ![c] = r.st]
           /\ ret' = Ret("drop_refmut", c, r.res, r.err, r.msg, NoVal, NoVal)
    /\ refmuts' = [refmuts EXCEPT ![c] = @ - 1]
    /\ UNCHANGED <<value, refs, stack, overflow_checks, leaked, cell_vars, rc_vars>>

\* The client writes v through a RefMut it holds on c (DerefMut).
DerefMutWrite(c, v) ==
    /\ refmuts[c] > 0
    /\ value' = [value EXCEPT ![c] = v]
    /\ ret' = Ret("deref_mut", c, "Ok", "none", "", NoVal, NoVal)
    /\ UNCHANGED <<state, refs, refmuts, stack, overflow_checks, leaked, cell_vars, rc_vars>>

(* ------------------------------------------------- whole-value operations *)

\* What a whole-value operation hands back: the outcome, the value it
\* returns, and the payloads and borrow states it leaves behind.
Effect(res, msg, val, vs, ss) ==
    [res |-> res, msg |-> msg, val |-> val, value |-> vs, state |-> ss]

\* Faulty replace: writes through the raw pointer without borrowing.
ReplaceUnchecked(c, v) ==
    Effect("Ok", "", value[c], [value EXCEPT ![c] = v], state)

\* Faulty replace: the temporary RefMut is not released.
ReplaceNoRelease(c, v) ==
    LET r == BorrowMut(state[c])
    IN  IF r.res # "Ok"
        THEN Effect(r.res, r.msg, NoVal, value, [state EXCEPT ![c] = r.st])
        ELSE Effect("Ok", "", value[c], [value EXCEPT ![c] = v],
                    [state EXCEPT ![c] = r.st])

\* RefCell::replace: std::mem::replace(&mut *self.borrow_mut(), val); the
\* temporary RefMut is dropped when the statement ends.
Replace(c, v) ==
    LET r == BorrowMut(state[c])
    IN  IF r.res # "Ok"
        THEN Effect(r.res, r.msg, NoVal, value, [state EXCEPT ![c] = r.st])
        ELSE LET d == DropRefMut(r.st)
             IN  Effect(d.res, d.msg, value[c], [value EXCEPT ![c] = v],
                        [state EXCEPT ![c] = d.st])

\* Faulty swap: `*a = *b; *b = *a`, both cells end with other's payload.
SwapOneWay(c, o) ==
    LET r1 == BorrowMut(state[c])
        r2 == BorrowMut([state EXCEPT ![c] = r1.st][o])
    IN  IF r1.res # "Ok" THEN Effect(r1.res, r1.msg, NoVal, value, state)
        ELSE IF r2.res # "Ok" THEN Effect(r2.res, r2.msg, NoVal, value, state)
        ELSE Effect("Ok", "", NoVal, [value EXCEPT ![c] = value[o]], state)

\* Faulty swap: a panic of the second borrow_mut leaves the first temporary
\* RefMut undropped.
SwapNoUnwind(c, o) ==
    LET r1 == BorrowMut(state[c])
        s1 == [state EXCEPT ![c] = r1.st]
    IN  IF r1.res # "Ok" THEN Effect(r1.res, r1.msg, NoVal, value, s1)
        ELSE LET r2 == BorrowMut(s1[o])
                 s2 == [s1 EXCEPT ![o] = r2.st]
             IN  IF r2.res # "Ok"
                 THEN Effect(r2.res, r2.msg, NoVal, value, s2)
                 ELSE Effect("Ok", "", NoVal,
                             [value EXCEPT ![c] = value[o], ![o] = value[c]],
                             state)

\* RefCell::swap: std::mem::swap(&mut *self.borrow_mut(),
\* &mut *other.borrow_mut()). The arguments are evaluated left to right; a
\* panic of the second borrow_mut unwinds through the first temporary
\* RefMut, which is dropped; after the swap both temporaries are dropped,
\* the second one first.
Swap(c, o) ==
    LET r1 == BorrowMut(state[c])
        s1 == [state EXCEPT ![c] = r1.st]
    IN  IF r1.res # "Ok" THEN Effect(r1.res, r1.msg, NoVal, value, s1)
        ELSE LET r2 == BorrowMut(s1[o])
                 s2 == [s1 EXCEPT ![o] = r2.st]
             IN  IF r2.res # "Ok"
                 THEN Effect(r2.res, r2.msg, NoVal, value,
                             [s2 EXCEPT ![c] = DropRefMut(s2[c]).st])
                 ELSE LET d2 == DropRefMut(s2[o])
                          s3 == [s2 EXCEPT ![o] = d2.st]
                          d1 == DropRefMut(s3[c])
                          s4 == [s3 EXCEPT ![c] = d1.st]
                      IN  Effect(IF d2.res = "Ok" THEN d1.res ELSE d2.res,
                                 IF d2.res = "Ok" THEN d1.msg ELSE d2.msg,
                                 NoVal,
                                 [value EXCEPT ![c] = value[o], ![o] = value[c]],
                                 s4)

\* A whole-value call: the effect e replaces the payloads and borrow states.
ValueCall(op, c, e, arg) ==
    /\ value' = e.value
    /\ state' = e.state
    /\ ret' = Ret(op, c, e.res, "none", e.msg, e.val, arg)
    /\ UNCHANGED <<refs, refmuts, stack, overflow_checks, leaked, cell_vars, rc_vars>>

CallReplace(c, v) == ValueCall("replace", c, Replace(c, v), v)

\* RefCell::take: self.replace(Default::default()).
CallTake(c) == ValueCall("take", c, Replace(c, Default), NoVal)

CallSwap(c, o) == ValueCall("swap", c, Swap(c, o), o)

(* ----------------------------------------------------------- replace_with *)

\* A replace_with call on cell c whose closure is running. The call holds
\* the RefMut made by `&mut *self.borrow_mut()`, a temporary whose life is
\* extended to the end of the function body. `old` remembers the payload the
\* cell held when replace_with was called.
Frame(c) == [cell |-> c, old |-> value[c]]

Top == stack[Len(stack)]

\* Cells whose replace_with closure is running.
InClosure == {stack[i].cell : i \in 1..Len(stack)}

\* Faulty replace_with: the RefMut is a temporary of the `let` statement and
\* is dropped before f is called.
ReplaceWithEnterEarlyDrop(c) ==
    LET r == BorrowMut(state[c])
    IN  [res |-> IF r.res = "Ok" THEN "Running" ELSE r.res, msg |-> r.msg,
         st |-> IF r.res = "Ok" THEN DropRefMut(r.st).st ELSE r.st,
         push |-> r.res = "Ok"]

\* RefCell::replace_with up to the call of f: borrow_mut, then f(mut_borrow).
ReplaceWithEnter(c) ==
    LET r == BorrowMut(state[c])
    IN  [res |-> IF r.res = "Ok" THEN "Running" ELSE r.res, msg |-> r.msg,
         st |-> r.st, push |-> r.res = "Ok"]

CallReplaceWith(c) ==
    LET e == ReplaceWithEnter(c)
    IN  /\ state' = [state EXCEPT ![c] = e.st]
        /\ stack' = IF e.push THEN Append(stack, Frame(c)) ELSE stack
        /\ ret' = Ret("replace_with", c, e.res, "none", e.msg, NoVal, NoVal)
        /\ UNCHANGED <<value, refs, refmuts, overflow_checks, leaked, cell_vars, rc_vars>>

\* Faulty replace_with: the new value is handed back and the old one kept.
ReplaceWithLeaveNoStore(c, new_value) ==
    LET d == DropRefMut(state[c])
    IN  Effect(d.res, d.msg, new_value, value, [state EXCEPT ![c] = d.st])

\* RefCell::replace_with from the return of f with new_value:
\* std::mem::replace(mut_borrow, new_value), then the RefMut is dropped as
\* the function returns.
ReplaceWithLeave(c, new_value) ==
    LET d == DropRefMut(state[c])
    IN  Effect(d.res, d.msg, value[c], [value EXCEPT ![c] = new_value],
               [state EXCEPT ![c] = d.st])

\* The closure of the innermost replace_with returns new_value.
ClosureReturn(new_value) ==
    /\ stack # <<>>
    /\ LET e == ReplaceWithLeave(Top.cell, new_value)
       IN  /\ value' = e.value
           /\ state' = e.state
           /\ ret' = Ret("replace_with", Top.cell, e.res, "none", e.msg, e.val,
                         new_value)
    /\ stack' = SubSeq(stack, 1, Len(stack) - 1)
    /\ UNCHANGED <<refs, refmuts, overflow_checks, leaked, cell_vars, rc_vars>>

ClosurePanicMsg == "closure panicked"

\* Faulty unwinding: the RefMut that replace_with holds is not dropped.
ReplaceWithUnwindNoDrop(c) == Outcome("Ok", "none", "", state[c])

\* The closure of the innermost replace_with panics: the unwinding drops the
\* RefMut that replace_with holds and the panic leaves replace_with.
ReplaceWithUnwind(c) == DropRefMut(state[c])

ClosurePanic ==
    /\ stack # <<>>
    /\ LET d == ReplaceWithUnwind(Top.cell)
       IN  /\ state' = [state EXCEPT ![Top.cell] = d.st]
           /\ ret' = Ret("replace_with", Top.cell, "Panic", "none",
                         IF d.res = "Ok" THEN ClosurePanicMsg ELSE d.msg,
                         NoVal, NoVal)
    /\ stack' = SubSeq(stack, 1, Len(stack) - 1)
    /\ UNCHANGED <<value, refs, refmuts, overflow_checks, leaked, cell_vars, rc_vars>>

\* A running closure writes v through the `&mut T` it was given (the closure
\* of an outer call can have lent its reference to an inner closure).
ClosureWrite(i, v) ==
    /\ i \in 1..Len(stack)
    /\ value' = [value EXCEPT ![stack[i].cell] = v]
    /\ ret' = Ret("closure_write", stack[i].cell, "Ok", "none", "", NoVal, NoVal)
    /\ UNCHANGED <<state, refs, refmuts, stack, overflow_checks, leaked, cell_vars, rc_vars>>

(* ------------------------------------------------ comparisons and clone *)

\* The RefCells that exist.
LiveCells == {c \in Cells : value[c] # NoVal}

\* Faulty comparison: the two temporary Refs are never released.
BorrowBothNoRelease(c, o, result) ==
    LET r1 == BorrowShared(state[c])
        s1 == [state EXCEPT ![c] = r1.st]
        r2 == BorrowShared(s1[o])
        s2 == [s1 EXCEPT ![o] = r2.st]
    IN  IF r1.res # "Ok" THEN Effect(r1.res, r1.msg, NoVal, value, s1)
        ELSE IF r2.res # "Ok" THEN Effect(r2.res, r2.msg, NoVal, value, s2)
        ELSE Effect("Ok", "", result, value, s2)

\* The borrows of `*self.borrow() <op> *other.borrow()`: self is borrowed,
\* then other; a panic of the second borrow unwinds through the first
\* temporary Ref, which is dropped; after the comparison both temporaries are
\* dropped, the second one first.
BorrowBoth(c, o, result) ==
    LET r1 == BorrowShared(state[c])
        s1 == [state EXCEPT ![c] = r1.st]
    IN  IF r1.res # "Ok" THEN Effect(r1.res, r1.msg, NoVal, value, s1)
        ELSE LET r2 == BorrowShared(s1[o])
                 s2 == [s1 EXCEPT ![o] = r2.st]
             IN  IF r2.res # "Ok"
                 THEN Effect(r2.res, r2.msg, NoVal, value,
                             [s2 EXCEPT ![c] = DropRef(s2[c]).st])
                 ELSE LET d2 == DropRef(s2[o])
                          s3 == [s2 EXCEPT ![o] = d2.st]
                          d1 == DropRef(s3[c])
                          s4 == [s3 EXCEPT ![c] = d1.st]
                      IN  Effect(IF d2.res = "Ok" THEN d1.res ELSE d2.res,
                                 IF d2.res = "Ok" THEN d1.msg ELSE d2.msg,
                                 IF d2.res = "Ok" /\ d1.res = "Ok" THEN result
                                 ELSE NoVal,
                                 value, s4)

\* bool as an integer.
Bool(p) == IF p THEN 1 ELSE 0

\* std::cmp::Ordering of a against b: Less = -1, Equal = 0, Greater = 1.
Ordering(a, b) == IF a < b THEN 0 - 1 ELSE IF a = b THEN 0 ELSE 1

\* impl PartialEq for RefCell: *self.borrow() == *other.borrow().
Eq(c, o) == BorrowBoth(c, o, Bool(value[c] = value[o]))

\* impl PartialOrd for RefCell: self.borrow().partial_cmp(&*other.borrow())
\* (lt, le, gt, ge and Ord::cmp borrow in the same way).
PartialCmp(c, o) == BorrowBoth(c, o, Ordering(value[c], value[o]))

CallEq(c, o) == ValueCall("eq", c, Eq(c, o), o)

CallPartialCmp(c, o) == ValueCall("partial_cmp", c, PartialCmp(c, o), o)

\* The cell that a constructor call fills.
NewCell == CHOOSE d \in Cells \ LiveCells : \A e \in Cells \ LiveCells : d <= e

\* impl Clone for RefCell: RefCell::new(self.borrow().clone()); the temporary
\* Ref is dropped when the statement ends. `made` is the new cell's payload.
Clone(c) ==
    LET r == BorrowShared(state[c])
    IN  IF r.res # "Ok"
        THEN [res |-> r.res, msg |-> r.msg, made |-> NoVal, st |-> r.st]
        ELSE LET d == DropRef(r.st)
             IN  [res |-> d.res, msg |-> d.msg,
                  made |-> IF d.res = "Ok" THEN value[c] ELSE NoVal, st |-> d.st]

CallClone(c) ==
    LET e == Clone(c)
    IN  /\ e.res = "Ok" => Cells \ LiveCells # {}
        /\ state' = IF e.res = "Ok"
                    THEN [state EXCEPT ![c] = e.st, ![NewCell] = UnShared]
                    ELSE [state EXCEPT ![c] = e.st]
        /\ value' = IF e.res = "Ok" THEN [value EXCEPT ![NewCell] = e.made]
                    ELSE value
        /\ ret' = Ret("clone", c, e.res, "none", e.msg, e.made,
                      IF e.res = "Ok" THEN NewCell ELSE NoVal)
        /\ UNCHANGED <<refs, refmuts, stack, overflow_checks, leaked, cell_vars, rc_vars>>

(* -------------------------------------------------- construction, consumption *)

\* RefCell::new(v), the new cell being d.
New(d, v) ==
    /\ d \notin LiveCells /\ d = NewCell
    /\ value' = [value EXCEPT ![d] = v]
    /\ state' = [state EXCEPT ![d] = UnShared]
    /\ ret' = Ret("new", d, "Ok", "none", "", NoVal, v)
    /\ UNCHANGED <<refs, refmuts, stack, overflow_checks, leaked, cell_vars, rc_vars>>

\* The dev profile enables debug assertions together with overflow checks,
\* the release profile neither.
DebugAssertions == overflow_checks

DebugAssertMsg == "assertion failed: self.state.get() == Borrow::UnShared"

\* RefCell::into_inner: debug_assert!(state == UnShared), then the payload.
IntoInner(c) ==
    IF DebugAssertions /\ state[c] # UnShared
    THEN [res |-> "Panic", msg |-> DebugAssertMsg, val |-> NoVal]
    ELSE [res |-> "Ok", msg |-> "", val |-> value[c]]

\* into_inner takes the cell by value: the borrow checker admits the call
\* only when no guard and no running replace_with borrows the cell. The cell
\* is gone afterwards, also when the assertion panics.
CallIntoInner(c) ==
    /\ refs[c] = 0 /\ refmuts[c] = 0 /\ c \notin InClosure
    /\ LET e == IntoInner(c)
       IN  ret' = Ret("into_inner", c, e.res, "none", e.msg, e.val, NoVal)
    /\ value' = [value EXCEPT ![c] = NoVal]
    /\ state' = [state EXCEPT ![c] = UnShared]
    /\ leaked' = [leaked EXCEPT ![c] = 0]
    /\ UNCHANGED <<refs, refmuts, stack, overflow_checks, cell_vars, rc_vars>>

\* Ref guards are forgotten up to one full turn of the counter.
MaxLeaks == UsizeMax + 1

\* std::mem::forget of a Ref the client holds on c: the guard is gone and
\* its destructor never runs.
ForgetRef(c) ==
    /\ refs[c] > 0
    /\ Sum(leaked, Cells) < MaxLeaks
    /\ refs' = [refs EXCEPT ![c] = @ - 1]
    /\ leaked' = [leaked EXCEPT ![c] = @ + 1]
    /\ ret' = Ret("forget_ref", c, "Ok", "none", "", NoVal, NoVal)
    /\ UNCHANGED <<value, state, refmuts, stack, overflow_checks, cell_vars, rc_vars>>

\* std::mem::forget of a RefMut the client holds on c.
ForgetRefMut(c) ==
    /\ refmuts[c] > 0
    /\ refmuts' = [refmuts EXCEPT ![c] = @ - 1]
    /\ ret' = Ret("forget_refmut", c, "Ok", "none", "", NoVal, NoVal)
    /\ UNCHANGED <<value, state, refs, stack, overflow_checks, leaked, cell_vars, rc_vars>>

(* ---------------------------------------------------------- specification *)

Next ==
    \/ \E c \in LiveCells : CallTryBorrow(c)
    \/ \E c \in LiveCells : CallBorrow(c)
    \/ \E c \in LiveCells : CallTryBorrowMut(c)
    \/ \E c \in LiveCells : CallBorrowMut(c)
    \/ \E c \in LiveCells : DropRefGuard(c)
    \/ \E c \in LiveCells : DropRefMutGuard(c)
    \/ \E c \in LiveCells, v \in Values : DerefMutWrite(c, v)
    \/ \E c \in LiveCells, v \in Values : CallReplace(c, v)
    \/ \E c \in LiveCells : CallTake(c)
    \/ \E c \in LiveCells, o \in LiveCells : CallSwap(c, o)
    \/ \E c \in LiveCells, o \in LiveCells : CallEq(c, o)
    \/ \E c \in LiveCells, o \in LiveCells : CallPartialCmp(c, o)
    \/ \E c \in LiveCells : CallClone(c)
    \/ \E d \in Cells, v \in Values : New(d, v)
    \/ \E c \in LiveCells : CallIntoInner(c)

Spec == Init /\ [][Next]_vars

\* The client that calls replace_with: borrows are taken and guards dropped
\* both outside and inside the running closures, and closures nest.
NextClosure ==
    \/ \E c \in LiveCells : CallTryBorrow(c)
    \/ \E c \in LiveCells : CallBorrow(c)
    \/ \E c \in LiveCells : CallTryBorrowMut(c)
    \/ \E c \in LiveCells : CallBorrowMut(c)
    \/ \E c \in LiveCells : DropRefGuard(c)
    \/ \E c \in LiveCells : DropRefMutGuard(c)
    \/ \E c \in LiveCells, v \in Values : DerefMutWrite(c, v)
    \/ \E c \in LiveCells : CallReplaceWith(c)
    \/ \E v \in Values : ClosureReturn(v)
    \/ ClosurePanic
    \/ \E i \in Cells, v \in Values : ClosureWrite(i, v)

SpecClosure == Init /\ [][NextClosure]_vars

\* The client may also leak guards.
NextLeak ==
    \/ Next
    \/ \E c \in LiveCells : ForgetRef(c)
    \/ \E c \in LiveCells : ForgetRefMut(c)

SpecLeak == Init /\ [][NextLeak]_vars

\* drop(c.borrow()): the Ref that borrow returns is dropped at once.
DropBorrow(b) ==
    LET r == BorrowShared(b)
    IN  IF r.res # "Ok" THEN r ELSE DropRef(r.st)

CallDropBorrow(c) ==
    /\ LET r == DropBorrow(state[c])
       IN  /\ state' = [state EXCEPT ![c] = r.st]
           /\ ret' = Ret("drop_borrow", c, r.res, r.err, r.msg, NoVal, NoVal)
    /\ UNCHANGED <<value, refs, refmuts, stack, overflow_checks, leaked, cell_vars, rc_vars>>

\* The client that only borrows: it takes guards, drops or forgets them and
\* writes through the RefMut it holds.
NextBorrowLeak ==
    \/ \E c \in LiveCells : CallTryBorrow(c)
    \/ \E c \in LiveCells : CallBorrow(c)
    \/ \E c \in LiveCells : CallTryBorrowMut(c)
    \/ \E c \in LiveCells : CallBorrowMut(c)
    \/ \E c \in LiveCells : DropRefGuard(c)
    \/ \E c \in LiveCells : DropRefMutGuard(c)
    \/ \E c \in LiveCells, v \in Values : DerefMutWrite(c, v)
    \/ \E c \in LiveCells : ForgetRef(c)
    \/ \E c \in LiveCells : ForgetRefMut(c)
    \/ \E c \in LiveCells : CallDropBorrow(c)

SpecBorrowLeak == Init /\ [][NextBorrowLeak]_vars

(* ------------------------------------------------------------------ Cell *)

\* The Cells that have been constructed and not consumed.
LiveValueCells == {k \in ValueCells : cell_value[k] # NoVal}

\* Cell::replace: mem::replace on the storage; the result is the value moved
\* out (val) and the storage afterwards (vs).
CellReplaceReturnsNew(k, val) ==
    [val |-> val, vs |-> [cell_value EXCEPT ![k] = val]]

CellReplace(k, val) ==
    [val |-> cell_value[k], vs |-> [cell_value EXCEPT ![k] = val]]

\* Cell::set: replace, then drop the value moved out.
CellSetKeepsOld(k, val) == cell_value

CellSet(k, val) == CellReplace(k, val).vs

\* Cell::get: a copy of the payload.
CellGet(k) == cell_value[k]

\* Cell::swap: nothing when both handles point to the same Cell, ptr::swap of
\* the two storages otherwise.
CellSwapOneWay(k, o) == [cell_value EXCEPT ![k] = cell_value[o]]

CellSwap(k, o) ==
    IF k = o
    THEN cell_value
    ELSE [cell_value EXCEPT ![k] = cell_value[o], ![o] = cell_value[k]]

\* Faulty take: the value is copied out and stays in the Cell.
CellTakeLeavesValue(k) == [val |-> cell_value[k], vs |-> cell_value]

\* Cell::take: replace with the default value.
CellTake(k) == CellReplace(k, Default)

\* Cell::into_inner: the Cell is consumed and its payload moved out.
CellIntoInner(k) ==
    [val |-> cell_value[k], vs |-> [cell_value EXCEPT ![k] = NoVal]]

\* The Cells on which a call is running client code, and the innermost of
\* these calls.
CellsInCall == {cell_stack[i].cell : i \in 1..Len(cell_stack)}
CellTop == cell_stack[Len(cell_stack)]

\* A running call: its method, its Cell, the value it took out of the Cell,
\* its argument, and whether the content of the Cell is still what it was
\* when the client code started.
CellFrame(op, k, old, arg) ==
    [op |-> op, cell |-> k, old |-> old, arg |-> arg, clean |-> TRUE]

\* The running calls when the storages become vs.
Touched(vs) ==
    [i \in 1..Len(cell_stack) |->
        IF vs[cell_stack[i].cell] = cell_value[cell_stack[i].cell]
        THEN cell_stack[i]
        ELSE [cell_stack[i] EXCEPT !.clean = FALSE]]

\* A call of an operation on the live Cell k that returns val and leaves the
\* storages as vs.
CellCall(op, k, val, arg, vs) ==
    /\ k \in LiveValueCells
    /\ cell_value' = vs
    /\ cell_stack' = Touched(vs)
    /\ ret' = Ret(op, k, "Ok", "none", "", val, arg)
    /\ UNCHANGED <<refcell_vars, rc_vars>>

CallCellSet(k, v) == CellCall("Cell::set", k, NoVal, v, CellSet(k, v))

CallCellGet(k) == CellCall("Cell::get", k, CellGet(k), NoVal, cell_value)

CallCellReplace(k, v) ==
    CellCall("Cell::replace", k, CellReplace(k, v).val, v, CellReplace(k, v).vs)

CallCellSwap(k, o) ==
    /\ o \in LiveValueCells
    /\ CellCall("Cell::swap", k, NoVal, o, CellSwap(k, o))

CallCellTake(k) ==
    CellCall("Cell::take", k, CellTake(k).val, NoVal, CellTake(k).vs)

CallCellIntoInner(k) ==
    /\ k \notin CellsInCall
    /\ CellCall("Cell::into_inner", k, CellIntoInner(k).val, NoVal,
                CellIntoInner(k).vs)

\* Cell::new(v): a Cell is constructed in the first free place.
CellNew(k, v) ==
    /\ k \notin LiveValueCells
    /\ \A e \in ValueCells \ LiveValueCells : k <= e
    /\ cell_value' = [cell_value EXCEPT ![k] = v]
    /\ ret' = Ret("Cell::new", k, "Ok", "none", "", NoVal, v)
    /\ UNCHANGED <<refcell_vars, cell_stack, rc_vars>>

\* <Cell<T> as Default>::default(): Cell::new(Default::default()).
CellDefault(k) ==
    /\ k \notin LiveValueCells
    /\ \A e \in ValueCells \ LiveValueCells : k <= e
    /\ cell_value' = [cell_value EXCEPT ![k] = Default]
    /\ ret' = Ret("Cell::default", k, "Ok", "none", "", NoVal, NoVal)
    /\ UNCHANGED <<refcell_vars, cell_stack, rc_vars>>

\* The client of SpecCell owns Cells only.
InitCell ==
    /\ cell_value \in [ValueCells -> Values]
    /\ cell_stack = <<>>
    /\ NoRefCells
    /\ NoRcs
    /\ ret = Ret("Cell::new", 0, "Ok", "none", "", NoVal, NoVal)
    /\ overflow_checks \in BOOLEAN

NextCell ==
    \/ \E k \in ValueCells, v \in Values : CellNew(k, v)
    \/ \E k \in ValueCells : CellDefault(k)
    \/ \E k \in ValueCells, v \in Values : CallCellSet(k, v)
    \/ \E k \in ValueCells : CallCellGet(k)
    \/ \E k \in ValueCells, v \in Values : CallCellReplace(k, v)
    \/ \E k \in ValueCells, o \in ValueCells : CallCellSwap(k, o)
    \/ \E k \in ValueCells : CallCellTake(k)
    \/ \E k \in ValueCells : CallCellIntoInner(k)

SpecCell == InitCell /\ [][NextCell]_vars

(* ---------------------------------------------------------- Cell::update *)

\* The closures given to update: closure f returns its argument plus f
\* (wrapping), after whatever it does to the Cells.
Fns == Values
Apply(f, v) == (v + f) % (MaxVal + 1)

\* Faulty update: the Cell is read again after f has run.
CellUpdateRereads(k, old, f) ==
    LET new == Apply(f, cell_value[k])
    IN  [val |-> new, vs |-> CellSet(k, new)]

\* Cell::update from the return of f: new = f(old), self.set(new), new.
CellUpdate(k, old, f) ==
    LET new == Apply(f, old)
    IN  [val |-> new, vs |-> CellSet(k, new)]

\* Cell::update up to the call of f: old = self.get(), then f(old).
CallCellUpdate(k, f) ==
    /\ k \in LiveValueCells
    /\ Len(cell_stack) < MaxCallDepth
    /\ cell_stack' = Append(cell_stack, CellFrame("Cell::update", k, CellGet(k), f))
    /\ ret' = Ret("Cell::update", k, "Running", "none", "", NoVal, f)
    /\ UNCHANGED <<refcell_vars, cell_value, rc_vars>>

\* The closure of the innermost update returns.
CellUpdateReturn ==
    /\ cell_stack # <<>>
    /\ CellTop.op = "Cell::update"
    /\ LET u == CellUpdate(CellTop.cell, CellTop.old, CellTop.arg)
       IN  /\ cell_value' = u.vs
           /\ ret' = Ret("Cell::update", CellTop.cell, "Ok", "none", "", u.val,
                         CellTop.arg)
    /\ cell_stack' = SubSeq(cell_stack, 1, Len(cell_stack) - 1)
    /\ UNCHANGED <<refcell_vars, rc_vars>>

\* The client of SpecCellUpdate owns Cells of a Copy payload and calls
\* update on them; the closures call the methods of the same Cells.
InitCellUpdate ==
    /\ cell_value \in [ValueCells -> Values \cup {NoVal}]
    /\ \A k \in ValueCells : cell_value[k] # NoVal <=> k \in NestCells
    /\ cell_stack = <<>>
    /\ NoRefCells
    /\ NoRcs
    /\ ret = Ret("Cell::new", 0, "Ok", "none", "", NoVal, NoVal)
    /\ overflow_checks \in BOOLEAN

NextCellUpdate ==
    \/ \E k \in NestCells, v \in Values : CallCellSet(k, v)
    \/ \E k \in NestCells : CallCellGet(k)
    \/ \E k \in NestCells, v \in Values : CallCellReplace(k, v)
    \/ \E k \in NestCells, o \in NestCells : CallCellSwap(k, o)
    \/ \E k \in NestCells : CallCellTake(k)
    \/ \E k \in NestCells, f \in Fns : CallCellUpdate(k, f)
    \/ CellUpdateReturn

SpecCellUpdate == InitCellUpdate /\ [][NextCellUpdate]_vars

(* ------------------------------------------- Cell of a payload with Drop *)

\* Faulty set: the old value is dropped in place, before val is stored.
CellSetDropsFirst(k, val) == [old |-> cell_value[k], vs |-> cell_value]

\* Faulty set: the old value is moved out and val is not yet stored when the
\* old value is dropped.
CellSetDropsEmpty(k, val) ==
    [old |-> cell_value[k], vs |-> [cell_value EXCEPT ![k] = NoVal]]

\* Cell::set up to drop(old): the value moved out by replace and the storages
\* at the time its destructor is called.
CellSetDropping(k, val) ==
    LET r == CellReplace(k, val)
    IN  [old |-> r.val, vs |-> r.vs]

\* Cell::set(val) on a payload with a destructor, up to the call of the
\* destructor of the old value.
CallCellSetDrop(k, val) ==
    /\ k \in LiveValueCells
    /\ Len(cell_stack) < MaxCallDepth
    /\ LET d == CellSetDropping(k, val)
       IN  /\ cell_value' = d.vs
           /\ cell_stack' = Append(Touched(d.vs),
                                   CellFrame("Cell::set", k, d.old, val))
    /\ ret' = Ret("Cell::set", k, "Dropping", "none", "", NoVal, val)
    /\ UNCHANGED <<refcell_vars, rc_vars>>

\* The destructor of the old value returns, and set returns after it.
CellSetReturn ==
    /\ cell_stack # <<>>
    /\ CellTop.op = "Cell::set"
    /\ cell_stack' = SubSeq(cell_stack, 1, Len(cell_stack) - 1)
    /\ ret' = Ret("Cell::set", CellTop.cell, "Ok", "none", "", NoVal, CellTop.arg)
    /\ UNCHANGED <<refcell_vars, cell_value, rc_vars>>

\* The client of SpecCellDrop owns Cells of a payload whose destructor is
\* client code holding handles to the same Cells: it runs inside set and
\* calls the methods that need no Copy.
InitCellDrop ==
    /\ cell_value \in [ValueCells -> Values \cup {NoVal}]
    /\ \A k \in ValueCells : cell_value[k] # NoVal <=> k \in NestCells
    /\ cell_stack = <<>>
    /\ NoRefCells
    /\ NoRcs
    /\ ret = Ret("Cell::new", 0, "Ok", "none", "", NoVal, NoVal)
    /\ overflow_checks \in BOOLEAN

NextCellDrop ==
    \/ \E k \in NestCells, v \in Values : CellNew(k, v)
    \/ \E k \in NestCells, v \in Values : CallCellSetDrop(k, v)
    \/ CellSetReturn
    \/ \E k \in NestCells, v \in Values : CallCellReplace(k, v)
    \/ \E k \in NestCells, o \in NestCells : CallCellSwap(k, o)
    \/ \E k \in NestCells : CallCellTake(k)
    \/ \E k \in NestCells : CallCellIntoInner(k)

SpecCellDrop == InitCellDrop /\ [][NextCellDrop]_vars

(* -------------------------------------------------------------- Rc, Weak *)

\* usize::checked_add(n, 1): NoVal stands for None.
CheckedAdd(n) == IF n < UsizeMax THEN n + 1 ELSE NoVal

\* Faulty inc_strong: the count is left as it was.
IncStrongNoOp(n) == [abort |-> FALSE, v |-> n]

\* Faulty inc_strong: a wrapping add.
IncStrongWraps(n) == [abort |-> FALSE, v |-> (n + 1) % (UsizeMax + 1)]

\* RcBoxPtr::inc_strong on a strong count n: checked_add(1), abort() on None.
IncStrong(n) ==
    LET r == CheckedAdd(n)
    IN  [abort |-> r = NoVal, v |-> IF r = NoVal THEN n ELSE r]

\* Faulty increment of the weak count: the count is left as it was.
IncWeakNoOp(n) == [abort |-> FALSE, v |-> n]

\* The increment of the weak count: compared against usize::MAX first, abort
\* on overflow.
IncWeak(n) ==
    LET r == CheckedAdd(n)
    IN  [abort |-> r = NoVal, v |-> IF r = NoVal THEN n ELSE r]

\* Faulty teardown: the payload is dropped by every drop of a strong handle.
DropStrongEveryTime(st, wk) ==
    IF st - 1 = 0
    THEN [strong |-> 0, weak |-> wk - 1, drop |-> TRUE, free |-> wk - 1 = 0]
    ELSE [strong |-> st - 1, weak |-> wk, drop |-> TRUE, free |-> FALSE]

\* Faulty teardown: the last strong handle frees the box with the payload.
DropStrongFreesBox(st, wk) ==
    IF st - 1 = 0
    THEN [strong |-> 0, weak |-> wk - 1, drop |-> TRUE, free |-> TRUE]
    ELSE [strong |-> st - 1, weak |-> wk, drop |-> FALSE, free |-> FALSE]

\* drop(strong) on the counts (st, wk): if --strong == 0, drop the payload in
\* place and, if --weak == 0, deallocate the box.
DropStrong(st, wk) ==
    IF st - 1 = 0
    THEN [strong |-> 0, weak |-> wk - 1, drop |-> TRUE, free |-> wk - 1 = 0]
    ELSE [strong |-> st - 1, weak |-> wk, drop |-> FALSE, free |-> FALSE]

\* drop(weak) on the weak count wk: if --weak == 0, deallocate the box.
DropWeakHandle(wk) == [weak |-> wk - 1, free |-> wk - 1 = 0]

\* Faulty upgrade: the strong count is not read before it is incremented.
UpgradeResurrects(st) ==
    [some |-> ~IncStrong(st).abort, abort |-> IncStrong(st).abort,
     strong |-> IncStrong(st).v]

\* Weak::upgrade on the strong count st: None if it is zero, otherwise the
\* count is incremented and a strong handle returned.
Upgrade(st) ==
    IF st = 0
    THEN [some |-> FALSE, abort |-> FALSE, strong |-> st]
    ELSE [some |-> ~IncStrong(st).abort, abort |-> IncStrong(st).abort,
          strong |-> IncStrong(st).v]

\* Rc::strong_count and Rc::weak_count, read through a strong handle.
StrongCount(st) == st
WeakCount(wk) == wk - 1

\* abort(): the process ends; st and wk are the counts of box b as the
\* aborting call leaves them.
Abort(op, b, st, wk) ==
    /\ aborted' = TRUE
    /\ strong' = [strong EXCEPT ![b] = st]
    /\ weak' = [weak EXCEPT ![b] = wk]
    /\ ret' = Ret(op, b, "Abort", "none", "", NoVal, NoVal)
    /\ UNCHANGED <<refcell_vars, cell_vars, made, rcs, weaks, dropped, freed>>

\* Rc::new(v): a box with counts (1, 1) and one strong handle.
RcNew(b) ==
    /\ ~aborted
    /\ ~made[b]
    /\ \A e \in Boxes : ~made[e] => b <= e
    /\ made' = [made EXCEPT ![b] = TRUE]
    /\ strong' = [strong EXCEPT ![b] = 1]
    /\ weak' = [weak EXCEPT ![b] = 1]
    /\ rcs' = [rcs EXCEPT ![b] = 1]
    /\ ret' = Ret("Rc::new", b, "Ok", "none", "", NoVal, NoVal)
    /\ UNCHANGED <<refcell_vars, cell_vars, weaks, dropped, freed, aborted>>

\* <Rc<T> as Clone>::clone: inc_strong, then a handle with the same ptr.
RcClone(b) ==
    /\ ~aborted
    /\ rcs[b] > 0
    /\ LET i == IncStrong(strong[b])
       IN  IF i.abort
           THEN Abort("Rc::clone", b, i.v, weak[b])
           ELSE /\ strong' = [strong EXCEPT ![b] = i.v]
                /\ rcs' = [rcs EXCEPT ![b] = @ + 1]
                /\ ret' = Ret("Rc::clone", b, "Ok", "none", "", NoVal,
                              StrongCount(strong[b]))
                /\ UNCHANGED <<refcell_vars, cell_vars, made, weak, weaks,
                               dropped, freed, aborted>>

\* Rc::downgrade: weak++, a Weak to the same box.
RcDowngrade(b) ==
    /\ ~aborted
    /\ rcs[b] > 0
    /\ LET i == IncWeak(weak[b])
       IN  IF i.abort
           THEN Abort("Rc::downgrade", b, strong[b], i.v)
           ELSE /\ weak' = [weak EXCEPT ![b] = i.v]
                /\ weaks' = [weaks EXCEPT ![b] = @ + 1]
                /\ ret' = Ret("Rc::downgrade", b, "Ok", "none", "", NoVal, NoVal)
                /\ UNCHANGED <<refcell_vars, cell_vars, made, strong, rcs,
                               dropped, freed, aborted>>

\* <Weak<T> as Clone>::clone of a non-empty Weak: weak++.
WeakClone(b) ==
    /\ ~aborted
    /\ weaks[b] > 0
    /\ LET i == IncWeak(weak[b])
       IN  IF i.abort
           THEN Abort("Weak::clone", b, strong[b], i.v)
           ELSE /\ weak' = [weak EXCEPT ![b] = i.v]
                /\ weaks' = [weaks EXCEPT ![b] = @ + 1]
                /\ ret' = Ret("Weak::clone", b, "Ok", "none", "", NoVal, NoVal)
                /\ UNCHANGED <<refcell_vars, cell_vars, made, strong, rcs,
                               dropped, freed, aborted>>

\* Weak::upgrade of a non-empty Weak.
WeakUpgrade(b) ==
    /\ ~aborted
    /\ weaks[b] > 0
    /\ LET u == Upgrade(strong[b])
       IN  IF u.abort
           THEN Abort("Weak::upgrade", b, u.strong, weak[b])
           ELSE /\ strong' = [strong EXCEPT ![b] = u.strong]
                /\ rcs' = [rcs EXCEPT ![b] = IF u.some THEN @ + 1 ELSE @]
                /\ ret' = Ret("Weak::upgrade", b,
                              IF u.some THEN "Some" ELSE "None", "none", "",
                              NoVal, NoVal)
                /\ UNCHANGED <<refcell_vars, cell_vars, made, weak, weaks,
                               dropped, freed, aborted>>

\* A strong handle is dropped.
RcDrop(b) ==
    /\ ~aborted
    /\ rcs[b] > 0
    /\ LET d == DropStrong(strong[b], weak[b])
       IN  /\ strong' = [strong EXCEPT ![b] = d.strong]
           /\ weak' = [weak EXCEPT ![b] = d.weak]
           /\ dropped' = [dropped EXCEPT ![b] = IF d.drop THEN @ + 1 ELSE @]
           /\ freed' = [freed EXCEPT ![b] = IF d.free THEN @ + 1 ELSE @]
    /\ rcs' = [rcs EXCEPT ![b] = @ - 1]
    /\ ret' = Ret("Rc::drop", b, "Ok", "none", "", NoVal, NoVal)
    /\ UNCHANGED <<refcell_vars, cell_vars, made, weaks, aborted>>

\* A non-empty weak handle is dropped.
WeakDrop(b) ==
    /\ ~aborted
    /\ weaks[b] > 0
    /\ LET d == DropWeakHandle(weak[b])
       IN  /\ weak' = [weak EXCEPT ![b] = d.weak]
           /\ freed' = [freed EXCEPT ![b] = IF d.free THEN @ + 1 ELSE @]
    /\ weaks' = [weaks EXCEPT ![b] = @ - 1]
    /\ ret' = Ret("Weak::drop", b, "Ok", "none", "", NoVal, NoVal)
    /\ UNCHANGED <<refcell_vars, cell_vars, made, strong, rcs, dropped, aborted>>

RcStrongCount(b) ==
    /\ ~aborted
    /\ rcs[b] > 0
    /\ ret' = Ret("Rc::strong_count", b, "Ok", "none", "",
                  StrongCount(strong[b]), NoVal)
    /\ UNCHANGED <<refcell_vars, cell_vars, rc_vars>>

RcWeakCount(b) ==
    /\ ~aborted
    /\ rcs[b] > 0
    /\ ret' = Ret("Rc::weak_count", b, "Ok", "none", "",
                  WeakCount(weak[b]), NoVal)
    /\ UNCHANGED <<refcell_vars, cell_vars, rc_vars>>

\* The client of SpecRc makes boxes and clones, downgrades, upgrades and
\* drops its handles in any order.
InitRc ==
    /\ NoRcs
    /\ NoRefCells
    /\ NoCells
    /\ ret = Ret("Rc::new", 0, "Ok", "none", "", NoVal, NoVal)
    /\ overflow_checks \in BOOLEAN

NextRc ==
    \/ \E b \in Boxes : RcNew(b)
    \/ \E b \in Boxes : RcClone(b)
    \/ \E b \in Boxes : RcDowngrade(b)
    \/ \E b \in Boxes : WeakClone(b)
    \/ \E b \in Boxes : WeakUpgrade(b)
    \/ \E b \in Boxes : RcDrop(b)
    \/ \E b \in Boxes : WeakDrop(b)
    \/ \E b \in Boxes : RcStrongCount(b)
    \/ \E b \in Boxes : RcWeakCount(b)

SpecRc == InitRc /\ [][NextRc]_vars

(* ------------------------------------------------------------ properties *)

\* Number of live RefMut guards on c: those the client holds and the one a
\* running replace_with holds.
LiveRefMut(c) == refmuts[c] + Cardinality({i \in 1..Len(stack) : stack[i].cell = c})

\* The step is a call of op on cell c.
Called(op, c) == ret'.op = op /\ ret'.cell = c

\* C1: shared-XOR-exclusive. The state of a cell is Exclusive exactly when a
\* RefMut on it is live, and a live RefMut is the only live guard of its cell.
C1_SharedXorExclusive ==
    \A c \in Cells :
        /\ state[c] = Exclusive <=> LiveRefMut(c) > 0
        /\ LiveRefMut(c) > 0 => LiveRefMut(c) = 1 /\ refs[c] = 0

C1_Witness ==
    \E c \in Cells :
        /\ refmuts[c] = 1
        /\ ret.cell = c /\ ret.op \in {"try_borrow", "try_borrow_mut"}
        /\ ret.res = "Err"

\* C2: try_borrow_mut returns Ok iff the state was UnShared immediately
\* before the call (it fails in every Shared(n), Shared(1) included, and in
\* Exclusive); on Ok the state becomes Exclusive.
C2_TryBorrowMutOkIffIdle ==
    [][\A c \in Cells :
          Called("try_borrow_mut", c) =>
              /\ ret'.res \in {"Ok", "Err"}
              /\ ret'.res = "Ok" <=> state[c] = UnShared
              /\ ret'.res = "Ok" => state'[c] = Exclusive /\ refmuts'[c] = refmuts[c] + 1
              /\ ret'.res = "Err" => state'[c] = state[c]]_vars

C2_Witness ==
    \E c \in Cells :
        /\ ret.op = "try_borrow_mut" /\ ret.cell = c /\ ret.res = "Err"
        /\ state[c] = Shared(1) /\ refs[c] = 1

NoGuardLive(c) == refs[c] = 0 /\ LiveRefMut(c) = 0

\* C4: whenever no guard of a cell is live its state is UnShared, whatever
\* the order of the drops, and a try_borrow_mut made then succeeds.
C4_IdleWhenNoGuard ==
    /\ [](\A c \in Cells : NoGuardLive(c) => state[c] = UnShared)
    /\ [][\A c \in Cells :
             NoGuardLive(c) /\ Called("try_borrow_mut", c) => ret'.res = "Ok"]_vars

C4_Witness ==
    \E c \in Cells :
        /\ ret.op \in {"drop_ref", "drop_refmut"} /\ ret.cell = c /\ ret.res = "Ok"
        /\ NoGuardLive(c) /\ state[c] = UnShared
        /\ \E o \in Cells : refs[o] > 0

C8_BorrowMutPanicMessage ==
    [][\A c \in Cells :
          Called("borrow_mut", c) =>
              IF state[c] # UnShared
              THEN /\ ret'.res = "Panic"
                   /\ ret'.msg = "already borrowed"
                   /\ refmuts'[c] = refmuts[c]
              ELSE /\ ret'.res = "Ok"
                   /\ state'[c] = Exclusive
                   /\ refmuts'[c] = refmuts[c] + 1]_vars

C8_Witness ==
    /\ ret.op = "borrow_mut" /\ ret.res = "Panic"
    /\ ret.msg = "already borrowed"
    /\ state[ret.cell].tag = "Shared"

\* C9: a refused try_borrow_mut returns the error kind BorrowMutError, which
\* prints as "already borrowed"; a refused try_borrow returns BorrowError,
\* which prints as "already mutably borrowed".
C9_RefusedErrorKinds ==
    /\ ret.op = "try_borrow_mut" /\ ret.res = "Err" =>
           ret.err = "BorrowMutError" /\ Display(ret.err) = "already borrowed"
    /\ ret.op = "try_borrow" /\ ret.res = "Err" =>
           ret.err = "BorrowError" /\ Display(ret.err) = "already mutably borrowed"

\* C10: while the closure of replace_with runs the state of its cell is
\* Exclusive, every borrow the closure tries on that cell is refused, and the
\* borrow is released only by the step in which replace_with leaves: on a
\* return, with the closure's result stored in the cell.
C10_ExclusiveDuringClosure ==
    /\ [](\A c \in InClosure : state[c] = Exclusive)
    /\ [][\A c \in InClosure :
             /\ Called("try_borrow", c) \/ Called("try_borrow_mut", c) =>
                   ret'.res = "Err"
             /\ Called("borrow", c) \/ Called("borrow_mut", c) =>
                   ret'.res = "Panic"
             /\ state'[c] # Exclusive =>
                   /\ c = Top.cell
                   /\ stack' = SubSeq(stack, 1, Len(stack) - 1)
                   /\ ret'.op = "replace_with" /\ ret'.cell = c
                   /\ ret'.res \in {"Ok", "Panic"}
                   /\ ret'.res = "Ok" => value'[c] = ret'.arg
                   /\ state'[c] = UnShared]_vars

C10_Witness ==
    /\ stack # <<>>
    /\ ret.op \in {"try_borrow", "try_borrow_mut"}
    /\ ret.cell = Top.cell /\ ret.res = "Err"

\* The step is the return of the replace_with call on c.
Returned(c) ==
    /\ stack # <<>> /\ Top.cell = c
    /\ ret'.op = "replace_with" /\ ret'.cell = c /\ ret'.res = "Ok"

\* C11 as claimed: replace_with returns the value the cell held immediately
\* before the call, leaves the closure's result in the cell and the state
\* UnShared, for every closure, one that writes through its `&mut T` included.
C11_ReturnsValueBeforeCall ==
    [][\A c \in Cells :
          Returned(c) =>
              /\ ret'.val = Top.old
              /\ value'[c] = ret'.arg
              /\ state'[c] = UnShared]_vars

\* C11 as amended: replace_with returns the value the cell holds when the
\* closure returns, which is the value from before the call unless the closure
\* wrote through its `&mut T` (nothing else changes the payload while it
\* runs); it leaves the closure's result in the cell and the state UnShared.
C11_ReturnsValueAtReturn ==
    [][\A c \in InClosure :
          /\ Returned(c) =>
                /\ ret'.val = value[c]
                /\ value'[c] = ret'.arg
                /\ state'[c] = UnShared
          /\ value'[c] # value[c] =>
                \/ ret'.op = "closure_write" /\ ret'.cell = c
                \/ Returned(c)
          /\ \A i \in 1..Len(stack) :
                (stack[i].cell = c /\ Len(stack') >= i) => stack'[i].old = stack[i].old]_vars

C11_Witness ==
    \E c \in Cells :
        /\ ret.op = "replace_with" /\ ret.cell = c /\ ret.res = "Ok"
        /\ value[c] = ret.arg /\ state[c] = UnShared
        /\ ret.val # ret.arg

\* C12: when the closure of replace_with panics, the panic leaves
\* replace_with, the RefMut it holds is dropped by the unwinding, the state
\* is UnShared afterwards and a borrow made next succeeds.
C12_PanicReleasesBorrow ==
    /\ []((ret.op = "replace_with" /\ ret.msg = ClosurePanicMsg) =>
             ret.res = "Panic" /\ state[ret.cell] = UnShared)
    /\ [][\A c \in Cells :
             /\ (Called("replace_with", c) /\ ret'.msg = ClosurePanicMsg) =>
                   /\ stack # <<>> /\ Top.cell = c
                   /\ ret'.res = "Panic"
                   /\ state[c] = Exclusive /\ state'[c] = UnShared
                   /\ stack' = SubSeq(stack, 1, Len(stack) - 1)
                   /\ value' = value
             /\ (ret.op = "replace_with" /\ ret.msg = ClosurePanicMsg /\ ret.cell = c
                 /\ (Called("try_borrow", c) \/ Called("try_borrow_mut", c)
                     \/ Called("borrow", c) \/ Called("borrow_mut", c))) =>
                   ret'.res = "Ok"]_vars

C12_Witness ==
    /\ ret.op = "replace_with" /\ ret.res = "Panic" /\ ret.msg = ClosurePanicMsg
    /\ state[ret.cell] = UnShared

\* C13: replace(v) on an UnShared cell returns the previous value and leaves
\* v in the cell and the state UnShared; on a borrowed cell it panics and
\* leaves payload and state as they were; take() is replace(default).
C13_ReplaceAndTake ==
    [][\A c \in Cells :
          /\ Called("replace", c) \/ Called("take", c) =>
                IF state[c] = UnShared
                THEN /\ ret'.res = "Ok"
                     /\ ret'.val = value[c]
                     /\ value'[c] = IF ret'.op = "take" THEN Default ELSE ret'.arg
                     /\ state' = state
                ELSE /\ ret'.res = "Panic"
                     /\ ret'.msg = "already borrowed"
                     /\ value' = value
                     /\ state' = state]_vars

C13_Witness ==
    \E c \in Cells :
        /\ ret.op = "replace" /\ ret.cell = c /\ ret.res = "Ok"
        /\ ret.val # ret.arg /\ value[c] = ret.arg /\ state[c] = UnShared

\* C14: swap on two distinct UnShared cells holding a and b leaves b in self,
\* a in other and both states UnShared; it panics if either is borrowed.
C14_SwapDistinct ==
    [][\A c, o \in Cells :
          (c # o /\ Called("swap", c) /\ ret'.arg = o) =>
              IF state[c] = UnShared /\ state[o] = UnShared
              THEN /\ ret'.res = "Ok"
                   /\ value'[c] = value[o] /\ value'[o] = value[c]
                   /\ state'[c] = UnShared /\ state'[o] = UnShared
              ELSE /\ ret'.res = "Panic"
                   /\ ret'.msg = "already borrowed"
                   /\ value' = value]_vars

C14_Witness ==
    \E c, o \in Cells :
        /\ c # o /\ ret.op = "swap" /\ ret.cell = c /\ ret.arg = o
        /\ ret.res = "Ok" /\ value[c] # value[o]

\* C15: swapping a RefCell with itself is a no-op: c.swap(&c) on an UnShared
\* cell completes without failing and leaves payload and state unchanged.
C15_SelfSwapNoOp ==
    [][\A c \in Cells :
          (Called("swap", c) /\ ret'.arg = c /\ state[c] = UnShared) =>
              /\ ret'.res = "Ok"
              /\ value' = value
              /\ state' = state]_vars

C17_IntoInnerOnlyIdle ==
    [][\A c \in Cells :
          Called("into_inner", c) =>
              /\ state[c] = UnShared
              /\ ret'.res = "Ok"
              /\ ret'.val = value[c]
              /\ (ret.op = "new" /\ ret.cell = c) => ret'.val = ret.arg]_vars

\* C18 (as stated): after c.set(v) the Cell holds v, and a get or into_inner
\* that follows the set returns v, whatever preceded the set.
C18_SetThenGet ==
    /\ [](\A k \in ValueCells :
             (ret.op = "Cell::set" /\ ret.cell = k) => cell_value[k] = ret.arg)
    /\ [][\A k \in ValueCells :
             /\ Called("Cell::set", k) => cell_value'[k] = ret'.arg
             /\ (/\ ret.op = "Cell::set" /\ ret.cell = k
                 /\ Called("Cell::get", k) \/ Called("Cell::into_inner", k))
                    => ret'.val = ret.arg]_vars

\* C18: c.set(v) stores v before the destructor of the old value runs and
\* stores nothing after it: when set returns the Cell holds v unless that
\* destructor changed the content of the Cell, and an into_inner that follows
\* returns what the Cell holds.
C18_SetThenGetUnlessDropWrites ==
    [][\A k \in ValueCells :
          /\ (Called("Cell::set", k) /\ ret'.res = "Dropping") =>
                cell_value'[k] = ret'.arg
          /\ (Called("Cell::set", k) /\ ret'.res = "Ok") =>
                /\ cell_stack # <<>> /\ CellTop.cell = k /\ CellTop.arg = ret'.arg
                /\ cell_value' = cell_value
                /\ CellTop.clean => cell_value'[k] = ret'.arg
          /\ (ret.op = "Cell::set" /\ ret.res = "Ok" /\ ret.cell = k
              /\ Called("Cell::into_inner", k)) =>
                ret'.val = cell_value[k]]_vars

C18_Witness ==
    \E k \in ValueCells :
        /\ ret.op = "Cell::set" /\ ret.res = "Ok" /\ ret.cell = k
        /\ ret.arg = MaxVal /\ cell_value[k] = MaxVal

\* C19: c1.swap(&c2) leaves c1 holding what c2 held and c2 holding what c1
\* held; when both are the same Cell the value is unchanged; no other Cell is
\* modified.
C19_CellSwapExchanges ==
    [][\A k, o \in ValueCells :
          (Called("Cell::swap", k) /\ ret'.arg = o) =>
              /\ cell_value'[k] = cell_value[o]
              /\ cell_value'[o] = cell_value[k]
              /\ k = o => cell_value' = cell_value
              /\ \A e \in ValueCells \ {k, o} : cell_value'[e] = cell_value[e]]_vars

C19_Witness ==
    \E k, o, e \in LiveValueCells :
        /\ k # o /\ e # k /\ e # o
        /\ ret.op = "Cell::swap" /\ ret.cell = k /\ ret.arg = o
        /\ cell_value[k] # cell_value[o]

\* C20: Cell::replace(v) returns the value held before the call and leaves
\* the Cell holding v; in replace(a) followed by replace(b) the second call
\* returns a and the Cell ends holding b.
C20_CellReplaceReturnsOld ==
    [][\A k \in ValueCells :
          Called("Cell::replace", k) =>
              /\ ret'.val = cell_value[k]
              /\ cell_value'[k] = ret'.arg
              /\ (ret.op = "Cell::replace" /\ ret.cell = k) => ret'.val = ret.arg]_vars

C20_Witness ==
    \E k \in ValueCells :
        /\ ret.op = "Cell::replace" /\ ret.cell = k
        /\ ret.val # ret.arg
        /\ cell_value[k] = ret.arg

\* C22: Cell::take returns the value the Cell held before the call and leaves
\* the default value in it; on a Cell just made by default() it returns the
\* default.
C22_CellTake ==
    [][\A k \in ValueCells :
          Called("Cell::take", k) =>
              /\ ret'.val = cell_value[k]
              /\ cell_value'[k] = Default
              /\ \A e \in ValueCells \ {k} : cell_value'[e] = cell_value[e]
              /\ (ret.op = "Cell::default" /\ ret.cell = k) => ret'.val = Default]_vars

C22_Witness ==
    \E k \in ValueCells :
        /\ ret.op = "Cell::take" /\ ret.cell = k
        /\ ret.val = MaxVal /\ cell_value[k] = Default

\* C21: update(f) passes f the value held on entry, returns f of that value
\* and leaves it in the Cell, whatever f did to the Cell in between; while f
\* runs the Cell can be read and set.
C21_UpdateIsSetOfGet ==
    [][\A k \in ValueCells :
          /\ (Called("Cell::update", k) /\ ret'.res = "Running") =>
                /\ cell_value' = cell_value
                /\ cell_stack'[Len(cell_stack')].old = cell_value[k]
                /\ cell_stack'[Len(cell_stack')].arg = ret'.arg
          /\ (Called("Cell::update", k) /\ ret'.res = "Ok") =>
                /\ cell_stack # <<>> /\ CellTop.cell = k
                /\ ret'.val = Apply(CellTop.arg, CellTop.old)
                /\ cell_value'[k] = Apply(CellTop.arg, CellTop.old)
          /\ (k \in CellsInCall /\ Called("Cell::set", k)) =>
                ret'.res = "Ok" /\ cell_value'[k] = ret'.arg
          /\ (k \in CellsInCall /\ Called("Cell::get", k)) =>
                ret'.res = "Ok" /\ ret'.val = cell_value[k]]_vars

C21_Witness ==
    /\ cell_stack # <<>>
    /\ CellTop.op = "Cell::update"
    /\ ~CellTop.clean
    /\ ret.op = "Cell::set" /\ ret.cell = CellTop.cell
    /\ cell_value[CellTop.cell] # Apply(CellTop.arg, CellTop.old)
    /\ Apply(CellTop.arg, CellTop.old) # CellTop.old

\* C23: when the destructor of the value replaced by set(v) starts, the
\* storage already holds v: what the destructor reads first from the Cell is
\* v, and as long as nothing has changed the content the Cell holds v, never
\* the old value or an empty slot.
C23_DropAfterStore ==
    /\ [](\A i \in 1..Len(cell_stack) :
             (cell_stack[i].op = "Cell::set" /\ cell_stack[i].clean) =>
                 cell_value[cell_stack[i].cell] = cell_stack[i].arg)
    /\ [][\A k \in ValueCells :
             /\ (Called("Cell::set", k) /\ ret'.res = "Dropping") =>
                   /\ cell_value'[k] = ret'.arg
                   /\ cell_stack'[Len(cell_stack')].old = cell_value[k]
             /\ (/\ ret.op = "Cell::set" /\ ret.res = "Dropping" /\ ret.cell = k
                 /\ Called("Cell::replace", k) \/ Called("Cell::take", k)) =>
                   ret'.val = ret.arg]_vars

C23_Witness ==
    /\ cell_stack # <<>>
    /\ CellTop.op = "Cell::set"
    /\ CellTop.old # CellTop.arg
    /\ ret.op = "Cell::replace" /\ ret.cell = CellTop.cell
    /\ ret.val = CellTop.arg

\* C24: a new Rc has counts (strong, weak) = (1, 1); a clone of a strong
\* handle adds exactly one to the strong count of its own box and to nothing
\* else, so strong_count read through the clone right afterwards is the count
\* before the clone plus one.
C24_NewAndClone ==
    [][\A b \in Boxes :
          /\ Called("Rc::new", b) =>
                strong'[b] = 1 /\ weak'[b] = 1 /\ rcs'[b] = 1
          /\ (Called("Rc::clone", b) /\ ret'.res = "Ok") =>
                /\ ret'.arg = strong[b]
                /\ strong'[b] = strong[b] + 1
                /\ rcs'[b] = rcs[b] + 1
                /\ \A e \in Boxes \ {b} :
                      strong'[e] = strong[e] /\ rcs'[e] = rcs[e]
                /\ weak' = weak /\ weaks' = weaks
          /\ (/\ ret.op = "Rc::clone" /\ ret.res = "Ok" /\ ret.cell = b
              /\ Called("Rc::strong_count", b)) =>
                ret'.val = ret.arg + 1]_vars

C24_Witness ==
    \E b \in Boxes :
        /\ ret.op = "Rc::clone" /\ ret.res = "Ok" /\ ret.cell = b
        /\ ret.arg = 2
        /\ strong[b] = 3

\* C25: whatever the sequence of clone, downgrade, upgrade and drops, the
\* payload is dropped at most once, it is dropped when and only when the drop
\* of a strong handle takes the strong count from 1 to 0, and it is never
\* dropped while a strong handle is live.
C25_PayloadDroppedOnce ==
    /\ [](\A b \in Boxes :
             /\ dropped[b] <= 1
             /\ rcs[b] > 0 => dropped[b] = 0
             /\ (made[b] /\ rcs[b] = 0) => dropped[b] = 1)
    /\ [][\A b \in Boxes :
             /\ dropped'[b] # dropped[b] =>
                   /\ Called("Rc::drop", b)
                   /\ strong[b] = 1 /\ strong'[b] = 0
                   /\ rcs[b] = 1
             /\ (strong[b] = 1 /\ strong'[b] = 0) =>
                   dropped'[b] = dropped[b] + 1]_vars

C25_Witness ==
    \E b \in Boxes :
        /\ ret.op = "Rc::drop" /\ ret.cell = b
        /\ strong[b] = 0
        /\ dropped[b] = 1
        /\ weaks[b] > 0

\* C26: the RcBox is freed at most once, when and only when the weak count
\* reaches 0, and it is allocated as long as a strong or a weak handle is
\* live, also after the payload was dropped with weak handles remaining.
C26_BoxFreedOnce ==
    /\ [](\A b \in Boxes :
             /\ freed[b] <= 1
             /\ rcs[b] + weaks[b] > 0 => freed[b] = 0
             /\ (made[b] /\ rcs[b] + weaks[b] = 0) => freed[b] = 1)
    /\ [][\A b \in Boxes :
             /\ freed'[b] # freed[b] =>
                   /\ weak[b] = 1 /\ weak'[b] = 0
                   /\ Called("Rc::drop", b) \/ Called("Weak::drop", b)
             /\ (weak[b] = 1 /\ weak'[b] = 0) =>
                   freed'[b] = freed[b] + 1]_vars

C26_Witness ==
    \E b \in Boxes :
        /\ ret.op = "Weak::drop" /\ ret.cell = b
        /\ dropped[b] = 1
        /\ freed[b] = 0
        /\ weaks[b] > 0

\* C27: upgrade returns a strong handle and adds one to the strong count
\* exactly if the strong count is at least 1 (short of the maximum count); a
\* strong count of 0 stays 0, so that after the drop of the last strong handle
\* every upgrade returns None, and dropping a weak handle then touches the
\* payload no more and frees the box only if it was the last handle.
C27_Upgrade ==
    [][\A b \in Boxes :
          /\ (Called("Weak::upgrade", b) /\ strong[b] >= 1) =>
                \/ /\ ret'.res = "Some"
                   /\ strong'[b] = strong[b] + 1
                   /\ rcs'[b] = rcs[b] + 1
                \/ ret'.res = "Abort" /\ strong[b] = UsizeMax
          /\ (Called("Weak::upgrade", b) /\ strong[b] = 0) =>
                ret'.res = "None" /\ rc_vars' = rc_vars
          /\ (Called("Weak::upgrade", b) /\ ret'.res = "Some") =>
                strong[b] >= 1 /\ rcs[b] >= 1
          /\ (made[b] /\ rcs[b] = 0) => strong'[b] = 0 /\ rcs'[b] = 0
          /\ (Called("Weak::drop", b) /\ rcs[b] = 0) =>
                /\ ret'.res = "Ok"
                /\ dropped'[b] = dropped[b]
                /\ freed'[b] = IF weaks[b] = 1 THEN 1 ELSE 0]_vars

C27_Witness ==
    \E b \in Boxes :
        /\ ret.op = "Weak::upgrade" /\ ret.res = "None" /\ ret.cell = b
        /\ rcs[b] = 0
        /\ weaks[b] > 1

\* C28: while an RcBox is allocated, strong is the number of live strong
\* handles and weak is the number of live weak handles, plus one if strong is
\* positive; weak_count returns weak minus one, the number of live weak
\* handles.
C28_CountsAreHandles ==
    /\ [](\A b \in Boxes :
             (made[b] /\ freed[b] = 0) =>
                 /\ strong[b] = rcs[b]
                 /\ weak[b] = weaks[b] + (IF strong[b] > 0 THEN 1 ELSE 0))
    /\ [][\A b \in Boxes :
             Called("Rc::weak_count", b) =>
                 ret'.val = weak[b] - 1 /\ ret'.val = weaks[b]]_vars

C28_Witness ==
    \E b \in Boxes :
        /\ ret.op = "Rc::weak_count" /\ ret.cell = b
        /\ ret.val = 2
        /\ weak[b] = 3
        /\ rcs[b] = 2

\* C29: an operation that increments the strong (weak) count when it is at
\* the maximum aborts the process and leaves counts and handles as they
\* were; one that returns a handle has added exactly one to its count, which
\* stays within the maximum; nothing runs after the abort.
C29_IncrementNeverWraps ==
    [][/\ ~aborted
       /\ \A b \in Boxes :
          /\ (/\ Called("Rc::clone", b) \/ Called("Weak::upgrade", b)
              /\ strong[b] = UsizeMax) =>
                ret'.res = "Abort" /\ aborted'
          /\ (/\ Called("Rc::downgrade", b) \/ Called("Weak::clone", b)
              /\ weak[b] = UsizeMax) =>
                ret'.res = "Abort" /\ aborted'
          /\ (ret'.res = "Abort" /\ ret'.cell = b) =>
                /\ strong' = strong /\ weak' = weak
                /\ rcs' = rcs /\ weaks' = weaks
          /\ rcs'[b] > rcs[b] =>
                strong'[b] = strong[b] + 1 /\ strong'[b] <= UsizeMax
          /\ weaks'[b] > weaks[b] =>
                weak'[b] = weak[b] + 1 /\ weak'[b] <= UsizeMax]_vars

C29_Witness ==
    \E b \in Boxes :
        /\ aborted
        /\ ret.op = "Rc::clone" /\ ret.res = "Abort" /\ ret.cell = b
        /\ strong[b] = UsizeMax
        /\ rcs[b] = UsizeMax

\* C32: a refused borrow changes nothing and does not wait: when try_borrow
\* or try_borrow_mut returns Err, or borrow or borrow_mut panics, the borrow
\* states, the payloads, the guards and the running closures are as before
\* the call; every borrowing call ends in the step it is made in, with a
\* guard, an Err or a panic.
C32_RefusedBorrowChangesNothing ==
    [][\A c \in Cells :
          \A op \in {"try_borrow", "try_borrow_mut", "borrow", "borrow_mut"} :
             /\ Called(op, c) => ret'.res \in {"Ok", "Err", "Panic"}
             /\ (Called(op, c) /\ ret'.res \in {"Err", "Panic"}) =>
                   /\ state' = state
                   /\ value' = value
                   /\ refs' = refs /\ refmuts' = refmuts
                   /\ stack' = stack
             /\ (Called(op, c) /\ ret'.res = "Ok") =>
                   state'[c] # state[c]]_vars

C32_Witness ==
    /\ ret.op = "try_borrow" /\ ret.res = "Err"
    /\ stack # <<>>
    /\ Top.cell = ret.cell
    /\ state[ret.cell] = Exclusive
    /\ \E c \in Cells : refs[c] > 0

\* C34: when swap(&other) panics because other is borrowed while self is
\* UnShared, the exclusive borrow it took on self is released by the
\* unwinding: self is UnShared afterwards, other's state, both payloads and
\* the guards held are as before, and the message is borrow_mut's.
C34_SwapUnwindReleasesSelf ==
    [][\A c \in Cells, o \in Cells :
          (/\ Called("swap", c) /\ ret'.arg = o
           /\ c # o
           /\ state[c] = UnShared
           /\ state[o] # UnShared) =>
              /\ ret'.res = "Panic"
              /\ ret'.msg = Display("BorrowMutError")
              /\ state'[c] = UnShared
              /\ state'[o] = state[o]
              /\ value' = value
              /\ refs' = refs /\ refmuts' = refmuts]_vars

C34_Witness ==
    /\ ret.op = "swap" /\ ret.res = "Panic"
    /\ ret.arg \in Cells /\ ret.arg # ret.cell
    /\ state[ret.cell] = UnShared
    /\ state[ret.arg] = Shared(2)
    /\ value[ret.cell] # value[ret.arg]

\* C31: in every reachable state the state of a RefCell is Shared(n) if and
\* only if exactly n >= 1 Ref guards created from the cell have not been
\* dropped (held by the client or forgotten): the counter never disagrees
\* with the number of those guards.
C31_CounterIsGuards ==
    \A c \in LiveCells :
        LET guards == refs[c] + leaked[c]
        IN  /\ state[c].tag = "Shared" =>
                  state[c].n >= 1 /\ state[c].n = guards
            /\ guards >= 1 => state[c] = Shared(guards)

\* C33: the shared-borrow counter never wraps: a try_borrow that returns Ok
\* in Shared(n) leaves Shared(n + 1) with n + 1 > n, also at the maximum of
\* the counter, and borrowing never produces Shared(0).
C33_CounterNeverWraps ==
    [][\A c \in Cells :
          (Called("try_borrow", c) /\ ret'.res = "Ok"
              /\ state[c].tag = "Shared") =>
                /\ state'[c] = Shared(state[c].n + 1)
                /\ state'[c].n > state[c].n
                /\ state'[c] # Shared(0)]_vars

\* C35: in every reachable state in which try_borrow succeeds,
\* drop(borrow()) returns, leaves the borrow state exactly as it was before
\* the borrow and does not change the payload.
C35_DropBorrowIsNoOp ==
    [][\A c \in Cells :
          (Called("drop_borrow", c) /\ TryBorrow(state[c]).res = "Ok") =>
              /\ ret'.res = "Ok"
              /\ state' = state
              /\ value' = value]_vars

====
